---------------------------- MODULE Spec2Model ----------------------------
(***************************************************************************)
(* The weather MCP server: the cache, the four request handlers, the       *)
(* upstream lookups, the report formatters and the protocol adapter.       *)
(*                                                                         *)
(* The repository holds the server twice: as one file (src/src/index.js,   *)
(* every handler inline, started by `node src/index.js`) and split into    *)
(* modules (cacheUtils, weatherUtils, weatherTools, weatherResource,       *)
(* mcpWrapper, started by startServer).  The variable `build` says which   *)
(* of the two is running; every handler below follows the code of that     *)
(* build.                                                                  *)
(*                                                                         *)
(* A JavaScript string is a sequence of pieces: the literal chunks of a    *)
(* template are one piece each, data (a city name, the digits of a number) *)
(* is one piece per character.  Two texts are byte-identical iff the       *)
(* sequences are equal.  A JavaScript value is a tagged record (Str, Num,  *)
(* Undefined, Null, Obj).                                                  *)
(***************************************************************************)
EXTENDS Integers, Sequences, FiniteSets, TLC

VARIABLES
    build,          \* "monolith" (src/src/index.js) or "modular" (the split files)
    clock,          \* Date.now(), in milliseconds
    weatherCache,   \* [current, forecast]: key -> [timestamp, text]
    inv,            \* the handler invocations in flight, one per slot
    calls           \* requests received so far

vars == <<build, clock, weatherCache, inv, calls>>

---------------------------------------------------------------------------
(* Bounds of the model *)

MaxCalls == 2
MaxClock == 1800000

Slots == {1, 2}
Builds == {"monolith", "modular"}

---------------------------------------------------------------------------
(* JavaScript values *)

Str(s) == [t |-> "string", v |-> s]
Num(n) == [t |-> "number", v |-> n]
Obj(o) == [t |-> "object", v |-> o]
Undefined == [t |-> "undefined"]
Null == [t |-> "null"]

\* Property read o.f of an object record: undefined when the property is missing.
Prop(o, f) == IF f \in DOMAIN o THEN o[f] ELSE Undefined

\* ToBoolean of the values the code tests.
Truthy(x) ==
    CASE x.t = "undefined" -> FALSE
      [] x.t = "null" -> FALSE
      [] x.t = "string" -> x.v # <<>>
      [] x.t = "number" -> x.v # 0
      [] OTHER -> TRUE

---------------------------------------------------------------------------
(* Strings *)

UpperCase == <<"A","B","C","D","E","F","G","H","I","J","K","L","M",
               "N","O","P","Q","R","S","T","U","V","W","X","Y","Z">>
LowerCase == <<"a","b","c","d","e","f","g","h","i","j","k","l","m",
               "n","o","p","q","r","s","t","u","v","w","x","y","z">>

toLowerCaseChar(c) ==
    IF \E j \in 1..26 : UpperCase[j] = c
    THEN LowerCase[CHOOSE j \in 1..26 : UpperCase[j] = c]
    ELSE c

\* String.prototype.toLowerCase
toLowerCase(s) == [i \in 1..Len(s) |-> toLowerCaseChar(s[i])]

Digits == <<"0","1","2","3","4","5","6","7","8","9">>

RECURSIVE NatStr(_)
NatStr(n) == IF n < 10 THEN <<Digits[n + 1]>>
             ELSE NatStr(n \div 10) \o <<Digits[(n % 10) + 1]>>

\* `${n}` for an integer n
NumStr(n) == IF n < 0 THEN <<"-">> \o NatStr(-n) ELSE NatStr(n)

\* s occurs in t as a contiguous substring (String.prototype.includes)
Includes(t, s) ==
    \E i \in 0..(Len(t) - Len(s)) : \A j \in 1..Len(s) : t[i + j] = s[j]

StartsWith(t, s) == Len(s) <= Len(t) /\ \A j \in 1..Len(s) : t[j] = s[j]

\* Coordinates are fixed-point numbers with five decimals: the integer x
\* stands for x / CoordScale degrees.
CoordScale == 10 * 10 * 10 * 10 * 10

PadFrac4(n) ==
    LET d == NatStr(n)
    IN  [i \in 1..(4 - Len(d)) |-> "0"] \o d

\* Number.prototype.toFixed(4) of x / CoordScale: the nearest multiple of
\* 0.0001, a negative value keeping its sign.  (No input of the model lies
\* exactly half way between two multiples.)
toFixed4(x) ==
    LET a == IF x < 0 THEN -x ELSE x
        n == (a + 5) \div 10
    IN  (IF x < 0 THEN <<"-">> ELSE <<>>)
        \o NatStr(n \div 10000) \o <<".">> \o PadFrac4(n % 10000)

\* new Date(ms).toLocaleString(): resolution one second.
toLocaleString(ms) == NatStr(ms \div 1000)

---------------------------------------------------------------------------
(* Cache: cacheUtils (modular) and the inline checks of index.js *)

cacheTime == 30 * 60 * 1000

EmptyNamespace == [k \in {} |-> Null]

\* The cache read at instant Date.now() = clock: the entry, or null.
getCacheEntry_le(type, key) ==
    IF key \notin DOMAIN weatherCache[type] THEN Null
    ELSE IF clock - weatherCache[type][key].timestamp <= cacheTime
         THEN Obj(weatherCache[type][key])
         ELSE Null

\* (a variant with the comparison the wrong way round)
getCacheEntry_inverted(type, key) ==
    IF key \notin DOMAIN weatherCache[type] THEN Null
    ELSE IF clock - weatherCache[type][key].timestamp > cacheTime
         THEN Obj(weatherCache[type][key])
         ELSE Null

getCacheEntry(type, key) ==
    IF key \notin DOMAIN weatherCache[type] THEN Null
    ELSE IF clock - weatherCache[type][key].timestamp < cacheTime
         THEN Obj(weatherCache[type][key])
         ELSE Null

\* (a variant in which the first writer wins: an existing entry is kept)
storeEntry_keepFirst(type, key, t, text) ==
    IF key \in DOMAIN weatherCache[type] THEN weatherCache
    ELSE [weatherCache EXCEPT ![type] =
             (key :> [timestamp |-> t, text |-> text]) @@ weatherCache[type]]

\* (a variant that drops the namespace's expired entries at each write)
storeEntry_pruning(type, key, t, text) ==
    LET kept == {k \in DOMAIN weatherCache[type] :
                    clock - weatherCache[type][k].timestamp < cacheTime}
    IN  [weatherCache EXCEPT ![type] =
            (key :> [timestamp |-> t, text |-> text])
            @@ [k \in kept |-> weatherCache[type][k]]]

\* (a variant with one flat table: the entry is stored under the key in
\* every namespace)
storeEntry_shared(type, key, t, text) ==
    [n \in DOMAIN weatherCache |->
        (key :> [timestamp |-> t, text |-> text]) @@ weatherCache[n]]

\* weatherCache after weatherCache[type][key] = { timestamp: t, text: text }
storeEntry(type, key, t, text) ==
    [weatherCache EXCEPT ![type] =
        (key :> [timestamp |-> t, text |-> text]) @@ weatherCache[type]]

\* cacheUtils.setCacheEntry: the timestamp is Date.now() at the write.
setCacheEntry(type, key, text) == storeEntry(type, key, clock, text)

---------------------------------------------------------------------------
(* Outcomes of a call: a returned value or a thrown Error *)

Return(v) == [k |-> "return", v |-> v]
Throw(message) == [k |-> "throw", message |-> message]

---------------------------------------------------------------------------
(* The upstream APIs, as the responses fetch() can produce *)

NetworkFailure == [kind |-> "network", message |-> <<"fetch failed">>]
HttpResponse(status, statusText, json) ==
    [kind |-> "http", ok |-> (status >= 200 /\ status <= 299),
     status |-> status, statusText |-> statusText, json |-> json]

\* apiUtils.fetchJson (and the copy in index.js): the parsed body, or a throw
\* on a rejected fetch and on a status outside 2xx.
fetchJson(response) ==
    IF response.kind = "network" THEN Throw(response.message)
    ELSE IF ~response.ok
         THEN Throw(<<"API Error: ">> \o NumStr(response.status)
                    \o <<" ", response.statusText>>)
         ELSE Return(response.json)

\* weatherUtils.getCoordinates: first match, or "City not found".
getCoordinates(city, response) ==
    LET fetched == fetchJson(response)
        data == fetched.v
    IN  IF fetched.k = "throw" THEN fetched
        ELSE IF "results" \notin DOMAIN data \/ Len(data.results) = 0
             THEN Throw(<<"City not found: ">> \o city)
             ELSE LET location == data.results[1]
                  IN  Return([latitude |-> location.latitude,
                              longitude |-> location.longitude,
                              name |-> location.name,
                              country |-> location.country,
                              admin1 |-> Prop(location, "admin1")])

\* weatherUtils.getCurrentWeather: data.current (undefined when missing).
getCurrentWeather(response) ==
    LET fetched == fetchJson(response)
    IN  IF fetched.k = "throw" THEN fetched
        ELSE Return(Prop(fetched.v, "current"))

\* weatherUtils.getForecast: data.daily (undefined when missing).
getForecast(response) ==
    LET fetched == fetchJson(response)
    IN  IF fetched.k = "throw" THEN fetched
        ELSE Return(Prop(fetched.v, "daily"))

---------------------------------------------------------------------------
(* Presentation *)

weatherCodes ==
    (0 :> "Clear sky") @@ (1 :> "Mainly clear") @@ (2 :> "Partly cloudy") @@
    (3 :> "Overcast") @@ (45 :> "Fog") @@ (48 :> "Depositing rime fog") @@
    (51 :> "Light drizzle") @@ (53 :> "Moderate drizzle") @@
    (55 :> "Dense drizzle") @@ (56 :> "Light freezing drizzle") @@
    (57 :> "Dense freezing drizzle") @@ (61 :> "Slight rain") @@
    (63 :> "Moderate rain") @@ (65 :> "Heavy rain") @@
    (66 :> "Light freezing rain") @@ (67 :> "Heavy freezing rain") @@
    (71 :> "Slight snow fall") @@ (73 :> "Moderate snow fall") @@
    (75 :> "Heavy snow fall") @@ (77 :> "Snow grains") @@
    (80 :> "Slight rain showers") @@ (81 :> "Moderate rain showers") @@
    (82 :> "Violent rain showers") @@ (85 :> "Slight snow showers") @@
    (86 :> "Heavy snow showers") @@ (95 :> "Thunderstorm") @@
    (96 :> "Thunderstorm with slight hail") @@
    (99 :> "Thunderstorm with heavy hail")

getWeatherDescription(code) ==
    IF code \in DOMAIN weatherCodes THEN <<weatherCodes[code]>>
    ELSE <<"Unknown (code: ">> \o NumStr(code) \o <<")">>

directions == <<"N", "NNE", "NE", "ENE", "E", "ESE", "SE", "SSE",
                "S", "SSW", "SW", "WSW", "W", "WNW", "NW", "NNW">>

\* Math.round(n / d) for d > 0: the nearest integer, a tie going up.
RoundDiv(n, d) == (2 * n + d) \div (2 * d)

\* The JavaScript remainder a % b for b > 0: it has the sign of a.
JsRem(a, b) == IF a >= 0 THEN a % b ELSE -((-a) % b)

\* directions[Math.round(degrees / 22.5) % 16]; an index outside the array
\* reads undefined.
formatWindDirection(degrees) ==
    LET index == JsRem(RoundDiv(2 * degrees, 45), 16)
    IN  IF index >= 0 THEN <<directions[index + 1]>> ELSE <<"undefined">>

\* `${x}` of a property holding text: "undefined" when the property is missing.
TplText(o, f) == IF f \in DOMAIN o THEN o[f] ELSE <<"undefined">>

\* (a variant whose gust clause also appears at exactly 1.5 times the speed)
CurrentBody_gustsAtThreshold(weather) ==
    <<"\n\n**Conditions:** ">> \o getWeatherDescription(weather.weather_code)
    \o <<"\n**Temperature:** ">> \o NumStr(weather.temperature_2m)
    \o <<"(deg)C (Feels like: ">> \o NumStr(weather.apparent_temperature)
    \o <<"(deg)C)\n**Humidity:** ">> \o NumStr(weather.relative_humidity_2m)
    \o <<"%\n**Wind:** ">> \o NumStr(weather.wind_speed_10m) \o <<" km/h ">>
    \o formatWindDirection(weather.wind_direction_10m)
    \o (IF 2 * weather.wind_gusts_10m >= 3 * weather.wind_speed_10m
        THEN <<" with gusts up to ">> \o NumStr(weather.wind_gusts_10m)
             \o <<" km/h">>
        ELSE <<>>)
    \o <<"\n**Cloud Cover:** ">> \o NumStr(weather.cloud_cover)
    \o <<"%\n**Precipitation:** ">> \o NumStr(weather.precipitation) \o <<" mm">>
    \o (IF weather.rain > 0
        THEN <<" (Rain: ">> \o NumStr(weather.rain) \o <<" mm)">>
        ELSE <<>>)
    \o <<"\n\n*Updated: ">> \o toLocaleString(clock) \o <<"*\n">>

\* The report below its heading (the same template in every copy).  The
\* speeds of the model are whole numbers, for which gusts > speed * 1.5 in
\* floating point is 2 * gusts > 3 * speed.
CurrentBody(weather) ==
    <<"\n\n**Conditions:** ">> \o getWeatherDescription(weather.weather_code)
    \o <<"\n**Temperature:** ">> \o NumStr(weather.temperature_2m)
    \o <<"(deg)C (Feels like: ">> \o NumStr(weather.apparent_temperature)
    \o <<"(deg)C)\n**Humidity:** ">> \o NumStr(weather.relative_humidity_2m)
    \o <<"%\n**Wind:** ">> \o NumStr(weather.wind_speed_10m) \o <<" km/h ">>
    \o formatWindDirection(weather.wind_direction_10m)
    \o (IF 2 * weather.wind_gusts_10m > 3 * weather.wind_speed_10m
        THEN <<" with gusts up to ">> \o NumStr(weather.wind_gusts_10m)
             \o <<" km/h">>
        ELSE <<>>)
    \o <<"\n**Cloud Cover:** ">> \o NumStr(weather.cloud_cover)
    \o <<"%\n**Precipitation:** ">> \o NumStr(weather.precipitation) \o <<" mm">>
    \o (IF weather.rain > 0
        THEN <<" (Rain: ">> \o NumStr(weather.rain) \o <<" mm)">>
        ELSE <<>>)
    \o <<"\n\n*Updated: ">> \o toLocaleString(clock) \o <<"*\n">>

NameLabel(location) ==
    TplText(location, "name") \o <<", ">> \o TplText(location, "country")

CoordinatesLabel(latitude, longitude) ==
    <<"Coordinates (">> \o toFixed4(latitude) \o <<", ">>
    \o toFixed4(longitude) \o <<")">>

TypeErrorReading(f) ==
    Throw(<<"Cannot read properties of undefined (reading '", f, "')">>)

\* weatherUtils.formatCurrentWeather(weather, location): the heading is chosen
\* by `location ? name, country : coordinates`, and an object is always truthy.
formatCurrentWeather(weather, location) ==
    IF weather = Undefined THEN TypeErrorReading("weather_code")
    ELSE Return(<<"\n# Current Weather for ">>
                \o (IF Truthy(Obj(location))
                    THEN NameLabel(location)
                    ELSE CoordinatesLabel(location.latitude, location.longitude))
                \o CurrentBody(weather))

\* The template of index.js's get_weather and currentweather handlers.
inlineCurrentWeather(weather, location) ==
    IF weather = Undefined THEN TypeErrorReading("weather_code")
    ELSE Return(<<"\n# Current Weather for ">> \o NameLabel(location)
                \o CurrentBody(weather))

\* The template of index.js's get_weather_by_coordinates handler.
inlineCoordinatesWeather(weather, latitude, longitude) ==
    IF weather = Undefined THEN TypeErrorReading("weather_code")
    ELSE Return(<<"\n# Current Weather for ">>
                \o CoordinatesLabel(latitude, longitude)
                \o CurrentBody(weather))

Weekdays == <<"Thursday", "Friday", "Saturday", "Sunday",
              "Monday", "Tuesday", "Wednesday">>

\* One day of the forecast; forecast.time[i] is a day number since the epoch.
RECURSIVE ForecastDays(_, _)
ForecastDays(forecast, i) ==
    IF i > Len(forecast.time) THEN <<>>
    ELSE <<"## ", Weekdays[(forecast.time[i] % 7) + 1], ", ">>
         \o NatStr(forecast.time[i])
         \o <<"\n**Conditions:** ">>
         \o getWeatherDescription(forecast.weather_code[i])
         \o <<"\n**Temperature:** ">> \o NumStr(forecast.temperature_2m_min[i])
         \o <<"(deg)C to ">> \o NumStr(forecast.temperature_2m_max[i])
         \o <<"(deg)C\n**Precipitation:** ">>
         \o NumStr(forecast.precipitation_sum[i]) \o <<" mm over ">>
         \o NumStr(forecast.precipitation_hours[i])
         \o <<" hours\n**Wind:** ">> \o NumStr(forecast.wind_speed_10m_max[i])
         \o <<" km/h ">>
         \o formatWindDirection(forecast.wind_direction_10m_dominant[i])
         \o (IF 10 * forecast.wind_gusts_10m_max[i]
                  > 13 * forecast.wind_speed_10m_max[i]
             THEN <<" with gusts up to ">>
                  \o NumStr(forecast.wind_gusts_10m_max[i]) \o <<" km/h">>
             ELSE <<>>)
         \o <<"\n\n">>
         \o ForecastDays(forecast, i + 1)

\* weatherUtils.formatForecast, and the same code inline in index.js.
formatForecast(forecast, location, days) ==
    IF forecast = Undefined THEN TypeErrorReading("time")
    ELSE Return(<<"# ">> \o NumStr(days) \o <<"-Day Weather Forecast for ">>
                \o NameLabel(location) \o <<"\n\n">>
                \o ForecastDays(forecast, 1)
                \o <<"*Updated: ">> \o toLocaleString(clock) \o <<"*">>)

---------------------------------------------------------------------------
(* Protocol adapter: envelopes, mcpWrapper, and the catch blocks of index.js *)

ToolEnvelope(text) == [content |-> <<[type |-> "text", text |-> text]>>]
ResourceEnvelope(href, text) == [contents |-> <<[uri |-> href, text |-> text]>>]

\* JSON.stringify(result, null, 2) of the non-string results that carry no
\* envelope: undefined has no JSON text (the call returns undefined).  The
\* objects of the model have one property, holding a number.
JSONstringify(result) ==
    CASE result.t = "null" -> Str(<<"null">>)
      [] result.t = "number" -> Str(NumStr(result.v))
      [] result.t = "object" ->
            LET f == CHOOSE g \in DOMAIN result.v : TRUE
            IN  Str(<<"{\n  \"", f, "\": ">> \o NumStr(result.v[f].v)
                    \o <<"\n}">>)
      [] OTHER -> Undefined

\* A text item whose text is `json`; a property holding undefined is left
\* out when the response is serialised.
JsonItem(item, json) ==
    IF json = Undefined THEN item ELSE item @@ [text |-> json.v]

\* McpWrapper._formatToolResponse.  `result && result.content`: only an
\* object has the property, and where an object of the model has it, it holds
\* an array, which is truthy.
formatToolResponse(result) ==
    IF Truthy(result) /\ result.t = "object" /\ "content" \in DOMAIN result.v
    THEN result.v
    ELSE IF result.t = "string" THEN ToolEnvelope(result.v)
    ELSE [content |-> <<JsonItem([type |-> "text"], JSONstringify(result))>>]

\* McpWrapper._formatToolError
formatToolError(message) == ToolEnvelope(<<"Error: ">> \o message)

\* McpWrapper._formatResourceResponse
formatResourceResponse(href, result) ==
    IF Truthy(result) /\ result.t = "object" /\ "contents" \in DOMAIN result.v
    THEN result.v
    ELSE IF result.t = "string" THEN ResourceEnvelope(href, result.v)
    ELSE [contents |-> <<JsonItem([uri |-> href], JSONstringify(result))>>]

\* McpWrapper._formatResourceError
formatResourceError(href, message) ==
    ResourceEnvelope(href, <<"Error: ">> \o message)

\* uri.href of currentweather://{city}
Href(city) == <<"currentweather://">> \o city

\* The text of the catch blocks of index.js.
inlineErrorText(op, message) ==
    (IF op = "get_forecast" THEN <<"Error retrieving forecast: ">>
     ELSE <<"Error retrieving weather: ">>) \o message

\* (a variant of the modular build whose wrapper has no catch: the error
\* leaves the callback)
Respond_uncaught(op, city, outcome) ==
    IF outcome.k = "throw" /\ build = "modular"
    THEN [thrown |-> outcome.message]
    ELSE IF op = "currentweather"
         THEN ResourceEnvelope(<<"currentweather://">> \o city,
                               IF outcome.k = "return" THEN outcome.v
                               ELSE <<"Error retrieving weather: ">>
                                    \o outcome.message)
         ELSE ToolEnvelope(IF outcome.k = "return" THEN outcome.v
                           ELSE (IF op = "get_forecast"
                                 THEN <<"Error retrieving forecast: ">>
                                 ELSE <<"Error retrieving weather: ">>)
                                \o outcome.message)

\* What the registered callback answers when the handler's work ends with
\* `outcome` (a returned text or a thrown error).  index.js: the handler's
\* own return and catch.  Modular build: registerTool / registerResource.
Respond(op, city, outcome) ==
    IF build = "monolith"
    THEN LET text == IF outcome.k = "return" THEN outcome.v
                     ELSE inlineErrorText(op, outcome.message)
         IN  IF op = "currentweather" THEN ResourceEnvelope(Href(city), text)
             ELSE ToolEnvelope(text)
    ELSE IF op = "currentweather"
         THEN IF outcome.k = "return"
              THEN formatResourceResponse(Href(city), Str(outcome.v))
              ELSE formatResourceError(Href(city), outcome.message)
         ELSE IF outcome.k = "return"
              THEN formatToolResponse(Str(outcome.v))
              ELSE formatToolError(outcome.message)

\* The text item of an envelope of either shape.
TextOf(envelope) ==
    IF "content" \in DOMAIN envelope THEN envelope.content[1].text
    ELSE envelope.contents[1].text

---------------------------------------------------------------------------
(* Parameter schemas (zod), applied by the server before the callback *)

MinDays == 1
MaxDays == 14
DefaultDays == 7
MaxLatitude == 90
MaxLongitude == 180

\* z.string()
zString(x) == x.t = "string"

\* (a variant with exclusive ends)
zNumberRange_exclusive(x, lo, hi) == x.t = "number" /\ x.v > lo /\ x.v < hi

\* z.number().min(lo).max(hi): both ends inclusive
zNumberRange(x, lo, hi) == x.t = "number" /\ x.v >= lo /\ x.v <= hi

\* (a variant that also demands a non-empty string: z.string().min(1))
GetWeatherSchema_nonEmpty(args) == args.city.t = "string" /\ args.city.v # <<>>

\* { city: z.string() }
GetWeatherSchema(args) == zString(args.city)

\* (a variant without the upper limit)
GetForecastSchema_noMax(args) ==
    /\ args.city.t = "string"
    /\ (args.days = Undefined \/ (args.days.t = "number" /\ args.days.v >= 1))

\* { city: z.string(), days: z.number().min(1).max(14).optional() }
GetForecastSchema(args) ==
    /\ zString(args.city)
    /\ (args.days = Undefined \/ zNumberRange(args.days, MinDays, MaxDays))

\* { latitude: z.number().min(-90).max(90),
\*   longitude: z.number().min(-180).max(180) }
CoordinatesSchema(args) ==
    /\ zNumberRange(args.latitude, -MaxLatitude * CoordScale,
                    MaxLatitude * CoordScale)
    /\ zNumberRange(args.longitude, -MaxLongitude * CoordScale,
                    MaxLongitude * CoordScale)

\* The protocol error the server answers when the arguments fail the schema.
InvalidParams == [error |-> "InvalidParams"]

---------------------------------------------------------------------------
(* Cache keys *)

\* The destructuring default of `{ city, days = 7 }`
DaysOf(args) == IF args.days = Undefined THEN DefaultDays ELSE args.days.v

\* city.toLowerCase()
CurrentKey(city) == toLowerCase(city)

\* (a variant that leaves the day count out of the key)
ForecastKey_noDays(city, days) == toLowerCase(city)

\* `${city.toLowerCase()}_${days}`
ForecastKey(city, days) == toLowerCase(city) \o <<"_">> \o NumStr(days)

Namespace(op) == IF op = "get_forecast" THEN "forecast" ELSE "current"

CacheKey(op, args) ==
    IF op = "get_forecast" THEN ForecastKey(args.city.v, DaysOf(args))
    ELSE CurrentKey(args.city.v)

---------------------------------------------------------------------------
(* The requests and the upstream responses the model draws from *)

London == <<"L", "o", "n", "d", "o", "n">>
LONDON == <<"L", "O", "N", "D", "O", "N">>
EmptyCity == <<>>

CityInputs == {Str(London), Str(LONDON), Str(EmptyCity), Num(42)}
CityNames == {London, LONDON}
\* A city whose current-conditions key is the forecast key of London, 7 days.
London_7 == <<"L", "o", "n", "d", "o", "n", "_", "7">>
ResourceCities == CityNames \cup {London_7}
ForecastInputs ==
    { [city |-> Str(London), days |-> Undefined],
      [city |-> Str(LONDON), days |-> Num(7)],
      [city |-> Str(London), days |-> Num(1)],
      [city |-> Str(London), days |-> Num(14)],
      [city |-> Str(London), days |-> Num(0)],
      [city |-> Str(London), days |-> Num(15)] }

\* (latitude, longitude), in units of 1 / CoordScale degree
CoordinateInputs ==
    { <<9000000, 18000000>>, <<-9000000, -18000000>>, <<1234567, -4567891>>,
      <<9000010, 0>>, <<-9000010, 0>>, <<0, 18000010>>, <<0, -18000010>> }

GeoLondon == [latitude |-> 5150853, longitude |-> -12574, name |-> London,
              country |-> <<"G", "B">>, admin1 |-> <<"England">>]

GeocodingResponses ==
    { NetworkFailure,
      HttpResponse(500, "Internal Server Error", [x |-> 0]),
      HttpResponse(200, "OK", [generationtime_ms |-> 1]),
      HttpResponse(200, "OK", [results |-> <<>>]),
      HttpResponse(200, "OK", [results |-> <<GeoLondon>>]) }

Calm == [temperature_2m |-> 21, apparent_temperature |-> 20,
         relative_humidity_2m |-> 40, precipitation |-> 0, rain |-> 0,
         weather_code |-> 0, cloud_cover |-> 5, wind_speed_10m |-> 10,
         wind_direction_10m |-> 0, wind_gusts_10m |-> 14]
Gusty == [temperature_2m |-> -3, apparent_temperature |-> -7,
          relative_humidity_2m |-> 90, precipitation |-> 2, rain |-> 2,
          weather_code |-> 63, cloud_cover |-> 100, wind_speed_10m |-> 10,
          wind_direction_10m |-> 350, wind_gusts_10m |-> 16]

CurrentResponses ==
    { NetworkFailure,
      HttpResponse(429, "Too Many Requests", [x |-> 0]),
      HttpResponse(200, "OK", [latitude |-> 0]),
      HttpResponse(200, "OK", [current |-> Calm]),
      HttpResponse(200, "OK", [current |-> Gusty]) }

TwoDays == [time |-> <<19844, 19845>>, weather_code |-> <<95, 1>>,
            temperature_2m_max |-> <<30, 28>>, temperature_2m_min |-> <<20, 19>>,
            precipitation_sum |-> <<8, 0>>, precipitation_hours |-> <<3, 0>>,
            wind_speed_10m_max |-> <<10, 20>>, wind_gusts_10m_max |-> <<13, 40>>,
            wind_direction_10m_dominant |-> <<90, 271>>]

ForecastResponses ==
    { NetworkFailure,
      HttpResponse(200, "OK", [latitude |-> 0]),
      HttpResponse(200, "OK", [daily |-> TwoDays]) }

TickSteps == {cacheTime - 1, cacheTime}

---------------------------------------------------------------------------
(* State *)

Ops == {"get_weather", "get_forecast", "get_weather_by_coordinates",
        "currentweather"}

\* An invocation of a registered callback.  pc: where it is suspended
\* ("geocoding", "weather": awaiting that fetch), "done" once the callback
\* has resolved, "rejected" when the arguments failed the schema.  now
\* (index.js only), location: the handler's locals.  geocodingFetches, weatherFetches,
\* cacheReads, cacheWrites count what the invocation did.
Idle ==
    [pc |-> "idle", op |-> "none", args |-> [none |-> Undefined],
     now |-> 0, location |-> Undefined,
     geocodingFetches |-> 0, weatherFetches |-> 0,
     cacheReads |-> 0, cacheWrites |-> 0, result |-> Undefined]

Init ==
    /\ build \in Builds
    /\ clock = 0
    /\ weatherCache = [current |-> EmptyNamespace, forecast |-> EmptyNamespace]
    /\ inv = [r \in Slots |-> Idle]
    /\ calls = 0

\* A response is sent as soon as its callback resolves: nothing else happens
\* while one is waiting to be sent.
NoResponseWaiting == \A q \in Slots : inv[q].pc \notin {"done", "rejected"}

\* A new request takes the lowest free slot (the slots are interchangeable).
Free(r) ==
    /\ NoResponseWaiting
    /\ inv[r].pc = "idle"
    /\ \A q \in Slots : q < r => inv[q].pc # "idle"
    /\ calls < MaxCalls

\* The callback resolves with `outcome`; the handler's locals are gone.
Resolved(i, outcome, wrote) ==
    [i EXCEPT !.pc = "done", !.now = 0, !.location = Undefined,
              !.cacheWrites = IF wrote THEN 1 ELSE 0,
              !.result = Respond(i.op, IF i.op = "currentweather"
                                       THEN i.args.city.v ELSE <<>>, outcome)]

Rejected(op, args) ==
    [Idle EXCEPT !.pc = "rejected", !.op = op, !.args = args,
                 !.result = InvalidParams]

\* The check at the top of index.js's handlers:
\* weatherCache[type][key] && now - weatherCache[type][key].timestamp < cacheTime
inlineCacheCheck(type, key, now) ==
    IF key \in DOMAIN weatherCache[type]
       /\ now - weatherCache[type][key].timestamp < cacheTime
    THEN Obj(weatherCache[type][key])
    ELSE Null

CacheLookup(type, key) ==
    IF build = "monolith" THEN inlineCacheCheck(type, key, clock)
    ELSE getCacheEntry(type, key)

\* A city handler from its start to its first await: the cache check, then
\* either the cached text or the geocoding fetch.
StartCityHandler(r, op, args) ==
    LET started == [Idle EXCEPT !.op = op, !.args = args, !.cacheReads = 1]
        cacheEntry == CacheLookup(Namespace(op), CacheKey(op, args))
    IN  inv' = [inv EXCEPT ![r] =
                 IF cacheEntry # Null
                 THEN Resolved(started, Return(cacheEntry.v.text), FALSE)
                 ELSE [started EXCEPT !.pc = "geocoding",
                                      !.now = IF build = "monolith"
                                              THEN clock ELSE 0,
                                      !.geocodingFetches = 1]]

\* tools/call get_weather
CallGetWeather(r, args) ==
    /\ Free(r)
    /\ calls' = calls + 1
    /\ IF GetWeatherSchema(args)
       THEN StartCityHandler(r, "get_weather", args)
       ELSE inv' = [inv EXCEPT ![r] = Rejected("get_weather", args)]
    /\ UNCHANGED <<build, clock, weatherCache>>

\* tools/call get_forecast
CallGetForecast(r, args) ==
    /\ Free(r)
    /\ calls' = calls + 1
    /\ IF GetForecastSchema(args)
       THEN StartCityHandler(r, "get_forecast", args)
       ELSE inv' = [inv EXCEPT ![r] = Rejected("get_forecast", args)]
    /\ UNCHANGED <<build, clock, weatherCache>>

\* resources/read currentweather://{city}
ReadCurrentWeather(r, city) ==
    /\ Free(r)
    /\ calls' = calls + 1
    /\ StartCityHandler(r, "currentweather", [city |-> Str(city)])
    /\ UNCHANGED <<build, clock, weatherCache>>

\* (a variant that looks the coordinates' request up in the cache like the
\* city handlers do, under the key "lat,lon")
CallGetWeatherByCoordinates_viaCache(r, args) ==
    /\ Free(r)
    /\ calls' = calls + 1
    /\ inv' = [inv EXCEPT ![r] =
                IF CoordinatesSchema(args)
                THEN [Idle EXCEPT !.pc = "weather",
                                  !.op = "get_weather_by_coordinates",
                                  !.args = args, !.weatherFetches = 1,
                                  !.cacheReads = 1]
                ELSE Rejected("get_weather_by_coordinates", args)]
    /\ UNCHANGED <<build, clock, weatherCache>>

\* tools/call get_weather_by_coordinates: no cache, no geocoding; the
\* handler starts with the weather fetch.
CallGetWeatherByCoordinates(r, args) ==
    /\ Free(r)
    /\ calls' = calls + 1
    /\ inv' = [inv EXCEPT ![r] =
                IF CoordinatesSchema(args)
                THEN [Idle EXCEPT !.pc = "weather",
                                  !.op = "get_weather_by_coordinates",
                                  !.args = args, !.weatherFetches = 1]
                ELSE Rejected("get_weather_by_coordinates", args)]
    /\ UNCHANGED <<build, clock, weatherCache>>

\* (a variant in which a handler resumes from its geocoding await only while
\* no other invocation is waiting for a response)
GeocodingSettles_waitsForOthers(r, response) ==
    /\ NoResponseWaiting
    /\ inv[r].pc = "geocoding"
    /\ \A q \in Slots \ {r} : inv[q].pc \notin {"geocoding", "weather"}
    /\ LET found == getCoordinates(inv[r].args.city.v, response)
       IN  inv' = [inv EXCEPT ![r] =
                    IF found.k = "throw" THEN Resolved(inv[r], found, FALSE)
                    ELSE [inv[r] EXCEPT !.pc = "weather",
                                        !.location = found.v,
                                        !.weatherFetches = 1]]
    /\ UNCHANGED <<build, clock, weatherCache, calls>>

\* (a variant that issues the geocoding request a second time when the first
\* one failed)
GeocodingSettles_retryOnce(r, response) ==
    /\ NoResponseWaiting
    /\ inv[r].pc = "geocoding"
    /\ LET found == getCoordinates(inv[r].args.city.v, response)
       IN  inv' = [inv EXCEPT ![r] =
                    IF found.k = "throw"
                    THEN IF inv[r].geocodingFetches < 2
                         THEN [inv[r] EXCEPT !.geocodingFetches = @ + 1]
                         ELSE Resolved(inv[r], found, FALSE)
                    ELSE [inv[r] EXCEPT !.pc = "weather",
                                        !.location = found.v,
                                        !.weatherFetches = 1]]
    /\ UNCHANGED <<build, clock, weatherCache, calls>>

\* The geocoding fetch of a city handler settles: getCoordinates finishes,
\* and the handler goes on to the weather fetch or ends with the error.
GeocodingSettles(r, response) ==
    /\ NoResponseWaiting
    /\ inv[r].pc = "geocoding"
    /\ LET found == getCoordinates(inv[r].args.city.v, response)
       IN  inv' = [inv EXCEPT ![r] =
                    IF found.k = "throw" THEN Resolved(inv[r], found, FALSE)
                    ELSE [inv[r] EXCEPT !.pc = "weather",
                                        !.location = found.v,
                                        !.weatherFetches = 1]]
    /\ UNCHANGED <<build, clock, weatherCache, calls>>

\* The report a handler renders from the fetched data.
Render(i, fetched) ==
    CASE i.op = "get_forecast" ->
            formatForecast(fetched, i.location, DaysOf(i.args))
      [] i.op = "get_weather_by_coordinates" ->
            IF build = "monolith"
            THEN inlineCoordinatesWeather(fetched, i.args.latitude.v,
                                          i.args.longitude.v)
            ELSE formatCurrentWeather(fetched,
                     [latitude |-> i.args.latitude.v,
                      longitude |-> i.args.longitude.v])
      [] OTHER ->
            IF build = "monolith"
            THEN inlineCurrentWeather(fetched, i.location)
            ELSE formatCurrentWeather(fetched, i.location)

\* The cache after a city handler stored `text`: index.js stores the `now`
\* it read at the start of the handler, setCacheEntry reads the clock.
CacheWrite(i, text) ==
    IF build = "monolith"
    THEN storeEntry(Namespace(i.op), CacheKey(i.op, i.args), i.now, text)
    ELSE setCacheEntry(Namespace(i.op), CacheKey(i.op, i.args), text)

\* (a variant in which a city handler also stores the message of a failure)
WeatherSettles_cachesErrors(r, response) ==
    /\ NoResponseWaiting
    /\ inv[r].pc = "weather"
    /\ LET i == inv[r]
           fetched == IF i.op = "get_forecast" THEN getForecast(response)
                      ELSE getCurrentWeather(response)
           report == IF fetched.k = "throw" THEN fetched
                     ELSE Render(i, fetched.v)
           stores == i.op # "get_weather_by_coordinates"
       IN  /\ inv' = [inv EXCEPT ![r] =
                        Resolved(i, report, stores /\ report.k = "return")]
           /\ weatherCache' = IF stores
                              THEN CacheWrite(i, IF report.k = "return"
                                                 THEN report.v
                                                 ELSE report.message)
                              ELSE weatherCache
    /\ UNCHANGED <<build, clock, calls>>

\* The weather fetch settles: the handler formats the report, a city handler
\* stores it, and the callback resolves.
WeatherSettles(r, response) ==
    /\ NoResponseWaiting
    /\ inv[r].pc = "weather"
    /\ LET i == inv[r]
           fetched == IF i.op = "get_forecast" THEN getForecast(response)
                      ELSE getCurrentWeather(response)
           report == IF fetched.k = "throw" THEN fetched
                     ELSE Render(i, fetched.v)
           stores == report.k = "return"
                     /\ i.op # "get_weather_by_coordinates"
       IN  /\ inv' = [inv EXCEPT ![r] = Resolved(i, report, stores)]
           /\ weatherCache' = IF stores THEN CacheWrite(i, report.v)
                              ELSE weatherCache
    /\ UNCHANGED <<build, clock, calls>>

\* The response is sent; the slot is free again.
Deliver(r) ==
    /\ inv[r].pc \in {"done", "rejected"}
    /\ inv' = [inv EXCEPT ![r] = Idle]
    /\ UNCHANGED <<build, clock, weatherCache, calls>>

\* Time passes.
Tick(d) ==
    /\ NoResponseWaiting
    /\ clock + d <= MaxClock
    /\ clock' = clock + d
    /\ UNCHANGED <<build, weatherCache, inv, calls>>

Next ==
    \/ \E r \in Slots, c \in CityInputs : CallGetWeather(r, [city |-> c])
    \/ \E r \in Slots, args \in ForecastInputs : CallGetForecast(r, args)
    \/ \E r \in Slots, c \in ResourceCities : ReadCurrentWeather(r, c)
    \/ \E r \in Slots, p \in CoordinateInputs :
          CallGetWeatherByCoordinates(r, [latitude |-> Num(p[1]),
                                          longitude |-> Num(p[2])])
    \/ \E r \in Slots, response \in GeocodingResponses :
          GeocodingSettles(r, response)
    \/ \E r \in Slots :
          \E response \in IF inv[r].op = "get_forecast"
                          THEN ForecastResponses ELSE CurrentResponses :
             WeatherSettles(r, response)
    \/ \E r \in Slots : Deliver(r)
    \/ \E d \in TickSteps : Tick(d)

Spec == Init /\ [][Next]_vars

\* The server when every upstream request is eventually answered or fails
\* (fetch settles its promise, and the event loop then resumes the handler
\* that awaits it), and a resolved callback's response is sent.
LiveSpec ==
    /\ Spec
    /\ \A r \in Slots :
          /\ WF_vars(\E response \in GeocodingResponses :
                        GeocodingSettles(r, response))
          /\ WF_vars(\E response \in IF inv[r].op = "get_forecast"
                                        THEN ForecastResponses
                                        ELSE CurrentResponses :
                        WeatherSettles(r, response))
          /\ WF_vars(Deliver(r))

---------------------------------------------------------------------------
(* The helpers on their own: weatherUtils' formatters and the callbacks   *)
(* McpWrapper registers, called with arguments drawn from bounded sets.   *)
(* A call occupies slot 1 from its start to the return of its value.      *)

MaxDegrees == 720
MaxSpeed == 10
MaxGusts == 16

AllIdle == \A q \in Slots : inv[q].pc = "idle"

Called(op, args, result) ==
    [Idle EXCEPT !.pc = "done", !.op = op, !.args = args, !.result = result]

\* formatWindDirection(degrees)
CallFormatWindDirection(degrees) ==
    /\ AllIdle
    /\ inv' = [inv EXCEPT ![1] =
                Called("formatWindDirection", [degrees |-> Num(degrees)],
                       Str(formatWindDirection(degrees)))]
    /\ UNCHANGED <<build, clock, weatherCache, calls>>

\* The current-conditions report of a place for a wind of `speed` km/h with
\* gusts of `gusts` km/h: formatCurrentWeather, or the template of index.js.
CallFormatCurrentWeather(speed, gusts) ==
    /\ AllIdle
    /\ LET weather == [Calm EXCEPT !.wind_speed_10m = speed,
                                   !.wind_gusts_10m = gusts]
           report == IF build = "monolith"
                     THEN inlineCurrentWeather(weather, GeoLondon)
                     ELSE formatCurrentWeather(weather, GeoLondon)
       IN  inv' = [inv EXCEPT ![1] =
                    Called("formatCurrentWeather",
                           [wind_speed_10m |-> Num(speed),
                            wind_gusts_10m |-> Num(gusts)],
                           Str(report.v))]
    /\ UNCHANGED <<build, clock, weatherCache, calls>>

\* The first day of TwoDays with the given wind.
OneDay(speed, gusts) ==
    [[f \in DOMAIN TwoDays |-> <<TwoDays[f][1]>>]
        EXCEPT !.wind_speed_10m_max = <<speed>>,
               !.wind_gusts_10m_max = <<gusts>>]

\* formatForecast of a one-day forecast
CallFormatForecast(speed, gusts) ==
    /\ AllIdle
    /\ inv' = [inv EXCEPT ![1] =
                Called("formatForecast",
                       [wind_speed_10m_max |-> Num(speed),
                        wind_gusts_10m_max |-> Num(gusts)],
                       Str(formatForecast(OneDay(speed, gusts), GeoLondon, 1).v))]
    /\ UNCHANGED <<build, clock, weatherCache, calls>>

\* What a handler given to the wrapper can end with.
HandlerErrors == {Throw(<<"boom">>), Throw(<<>>)}
PlainResults ==
    {Str(<<"o", "k">>), Str(<<>>), Num(0), Num(42), Null, Undefined,
     Obj([temperature |-> Num(21)])}
ToolOutcomes ==
    {Return(v) : v \in PlainResults \cup {Obj(ToolEnvelope(<<"d", "o", "n", "e">>))}}
    \cup HandlerErrors
ResourceOutcomes ==
    {Return(v) : v \in PlainResults
                     \cup {Obj(ResourceEnvelope(Href(London), <<"d", "o", "n", "e">>))}}
    \cup HandlerErrors

\* The callback McpWrapper.registerTool registers, for a handler that ends
\* with `outcome`.
CallRegisteredTool(outcome) ==
    /\ build = "modular"
    /\ AllIdle
    /\ inv' = [inv EXCEPT ![1] =
                Called("registerTool", [handler |-> outcome],
                       IF outcome.k = "return"
                       THEN formatToolResponse(outcome.v)
                       ELSE formatToolError(outcome.message))]
    /\ UNCHANGED <<build, clock, weatherCache, calls>>

\* The callback McpWrapper.registerResource registers, read at the URI of
\* `city`, for a handler that ends with `outcome`.
CallRegisteredResource(city, outcome) ==
    /\ build = "modular"
    /\ AllIdle
    /\ inv' = [inv EXCEPT ![1] =
                Called("registerResource",
                       [uri |-> Str(Href(city)), handler |-> outcome],
                       IF outcome.k = "return"
                       THEN formatResourceResponse(Href(city), outcome.v)
                       ELSE formatResourceError(Href(city), outcome.message))]
    /\ UNCHANGED <<build, clock, weatherCache, calls>>

UnitNext ==
    \/ \E degrees \in (-MaxDegrees)..MaxDegrees :
          CallFormatWindDirection(degrees)
    \/ \E speed \in 0..MaxSpeed, gusts \in 0..MaxGusts :
          CallFormatCurrentWeather(speed, gusts)
    \/ \E speed \in 0..MaxSpeed, gusts \in 0..MaxGusts :
          CallFormatForecast(speed, gusts)
    \/ \E outcome \in ToolOutcomes : CallRegisteredTool(outcome)
    \/ \E city \in CityNames, outcome \in ResourceOutcomes :
          CallRegisteredResource(city, outcome)
    \/ \E r \in Slots : Deliver(r)

UnitSpec == Init /\ [][UnitNext]_vars

---------------------------------------------------------------------------
(* Properties *)

CityOps == {"get_weather", "get_forecast", "currentweather"}

\* In this step slot r receives a request of a city operation that passes
\* its schema, and its handler runs up to its first await.
CityHandlerStarts(r) ==
    /\ inv[r].pc = "idle"
    /\ inv'[r].pc \in {"geocoding", "done"}
    /\ inv'[r].op \in CityOps

\* The key of the request now in slot r, written out: the lower-cased city,
\* for a forecast followed by "_" and the day count (7 when omitted).
KeyOf(i) ==
    IF i.op = "get_forecast"
    THEN toLowerCase(i.args.city.v) \o <<"_">>
         \o NumStr(IF i.args.days = Undefined THEN 7 ELSE i.args.days.v)
    ELSE toLowerCase(i.args.city.v)

\* The namespace holds an entry for the key that is younger than 30 minutes.
FreshEntry(type, key) ==
    /\ key \in DOMAIN weatherCache[type]
    /\ clock - weatherCache[type][key].timestamp < 1800000

IsEnvelopeOf(op, result) ==
    IF op = "currentweather"
    THEN DOMAIN result = {"contents"} /\ Len(result.contents) = 1
         /\ DOMAIN result.contents[1] = {"uri", "text"}
    ELSE DOMAIN result = {"content"} /\ Len(result.content) = 1
         /\ DOMAIN result.content[1] = {"type", "text"}
         /\ result.content[1].type = "text"

(***************************************************************************)
(* C1.  A city request (get_weather, get_forecast, currentweather) whose   *)
(* key has an entry younger than 30 minutes is answered with exactly the   *)
(* stored text, and issues no geocoding and no weather request.  A handler *)
(* that stores a report returns the very text it stored, so a second call  *)
(* inside the window repeats the first call's text.                        *)
(***************************************************************************)
C1_CacheHitReturnsStoredText ==
    [][\A r \in Slots :
        /\ (CityHandlerStarts(r)
            /\ FreshEntry(Namespace(inv'[r].op), KeyOf(inv'[r])))
           => /\ inv'[r].pc = "done"
              /\ IsEnvelopeOf(inv'[r].op, inv'[r].result)
              /\ TextOf(inv'[r].result)
                   = weatherCache[Namespace(inv'[r].op)][KeyOf(inv'[r])].text
              /\ inv'[r].geocodingFetches = 0
              /\ inv'[r].weatherFetches = 0
        /\ (inv[r].pc = "weather" /\ inv'[r].pc = "done"
            /\ inv'[r].cacheWrites = 1)
           => TextOf(inv'[r].result)
                = weatherCache'[Namespace(inv'[r].op)][KeyOf(inv'[r])].text
      ]_vars

\* A get_weather call answered from an entry stored cacheTime - 1 ms earlier:
\* the text still carries the time of the first call.
C1_Witness ==
    \E r \in Slots :
        /\ inv[r].pc = "done" /\ inv[r].op = "get_weather"
        /\ inv[r].args.city.v = LONDON
        /\ inv[r].geocodingFetches = 0 /\ inv[r].weatherFetches = 0
        /\ inv[r].cacheReads = 1
        /\ toLowerCase(LONDON) \in DOMAIN weatherCache.current
        /\ clock - weatherCache.current[toLowerCase(LONDON)].timestamp
             = cacheTime - 1
        /\ TextOf(inv[r].result) = weatherCache.current[toLowerCase(LONDON)].text
        /\ Includes(TextOf(inv[r].result), <<"\n\n*Updated: ", "0", "*\n">>)

(***************************************************************************)
(* C2.  A cache read returns the stored entry if and only if               *)
(* now - timestamp < 30 minutes: a handler that reads the cache is served  *)
(* the stored text exactly when its key has an entry younger than 30       *)
(* minutes, and goes on to the geocoding fetch when the entry is missing   *)
(* or 30 minutes old or older; the read leaves the cache as it was, so an  *)
(* expired entry stays stored.                                             *)
(***************************************************************************)
C2_ReadValidIffInsideWindow ==
    [][\A r \in Slots :
        CityHandlerStarts(r)
        => LET type == Namespace(inv'[r].op)
               key == KeyOf(inv'[r])
           IN  /\ (inv'[r].pc = "done") <=> FreshEntry(type, key)
               /\ (inv'[r].pc = "geocoding")
                  <=> (key \notin DOMAIN weatherCache[type]
                       \/ clock - weatherCache[type][key].timestamp >= 1800000)
               /\ inv'[r].pc = "done"
                  => TextOf(inv'[r].result) = weatherCache[type][key].text
               /\ weatherCache' = weatherCache
      ]_vars

\* A read exactly 30 minutes after the write misses, and the entry is still
\* stored.
C2_Witness ==
    \E r \in Slots :
        /\ inv[r].pc = "geocoding" /\ inv[r].op \in CityOps
        /\ build = "monolith" /\ inv[r].now = clock
        /\ KeyOf(inv[r]) \in DOMAIN weatherCache[Namespace(inv[r].op)]
        /\ clock - weatherCache[Namespace(inv[r].op)][KeyOf(inv[r])].timestamp
             = 1800000

---------------------------------------------------------------------------

\* The report of a successful lookup, as opposed to an error text.
IsReport(text) ==
    \E n \in 1..Len(text) :
        text[n] \in {"\n\n**Conditions:** ", "\n**Conditions:** "}

(***************************************************************************)
(* C3.  When geocoding finds no match for the city, get_weather answers a  *)
(* text that begins with "Error retrieving weather:" and contains the city *)
(* name.  (The original claim; the modular build answers "Error: City not  *)
(* found: ..." instead.)                                                   *)
(***************************************************************************)
C3_NotFoundTextPrefixed ==
    \A r \in Slots :
        (/\ inv[r].pc = "done" /\ inv[r].op = "get_weather"
         /\ Includes(TextOf(inv[r].result), <<"City not found: ">>))
        => /\ StartsWith(TextOf(inv[r].result), <<"Error retrieving weather: ">>)
           /\ Includes(TextOf(inv[r].result), inv[r].args.city.v)

(***************************************************************************)
(* C4.  Whatever way the geocoding or the weather fetch fails (rejected    *)
(* fetch, status outside 2xx, no match for the city), the registered       *)
(* callback of each of the four operations resolves with an envelope of    *)
(* its kind whose text carries the error's message; no invocation ends     *)
(* with a thrown error.                                                    *)
(***************************************************************************)
ResolvedWithError(i, message) ==
    /\ i.pc = "done"
    /\ IsEnvelopeOf(i.op, i.result)
    /\ StartsWith(TextOf(i.result), <<"Error retrieving weather: ">>)
       \/ StartsWith(TextOf(i.result), <<"Error retrieving forecast: ">>)
       \/ StartsWith(TextOf(i.result), <<"Error: ">>)
    /\ Includes(TextOf(i.result), message)

C4_FailuresBecomeErrorText ==
    [][\A r \in Slots :
        /\ \A response \in GeocodingResponses :
              (/\ GeocodingSettles(r, response)
               /\ getCoordinates(inv[r].args.city.v, response).k = "throw")
              => ResolvedWithError(inv'[r],
                    getCoordinates(inv[r].args.city.v, response).message)
        /\ \A response \in CurrentResponses \cup ForecastResponses :
              (/\ WeatherSettles(r, response)
               /\ fetchJson(response).k = "throw")
              => ResolvedWithError(inv'[r], fetchJson(response).message)
        /\ inv'[r].pc = "done" => IsEnvelopeOf(inv'[r].op, inv'[r].result)
      ]_vars

\* A get_forecast whose forecast fetch was rejected, answered by the
\* wrapper of the modular build.
C4_Witness ==
    \E r \in Slots :
        /\ build = "modular"
        /\ inv[r].pc = "done" /\ inv[r].op = "get_forecast"
        /\ inv[r].geocodingFetches = 1 /\ inv[r].weatherFetches = 1
        /\ TextOf(inv[r].result) = <<"Error: ", "fetch failed">>

(***************************************************************************)
(* C5.  get_weather_by_coordinates accepts a latitude in [-90, 90] and a   *)
(* longitude in [-180, 180], both ends included, and rejects every other   *)
(* value before any weather request: a rejected call has issued no fetch.  *)
(***************************************************************************)
InRange(args) ==
    /\ args.latitude.v >= -9000000 /\ args.latitude.v <= 9000000
    /\ args.longitude.v >= -18000000 /\ args.longitude.v <= 18000000

C5_CoordinateRangeInclusive ==
    [][\A r \in Slots :
        /\ (inv[r].pc = "idle"
            /\ inv'[r].op = "get_weather_by_coordinates")
           => /\ InRange(inv'[r].args)
                 => (inv'[r].pc = "weather" /\ inv'[r].weatherFetches = 1)
              /\ ~InRange(inv'[r].args)
                 => (/\ inv'[r].pc = "rejected"
                     /\ inv'[r].result = InvalidParams
                     /\ inv'[r].weatherFetches = 0
                     /\ inv'[r].geocodingFetches = 0)
        /\ (inv[r].pc = "rejected" /\ inv'[r] # inv[r]) => inv'[r] = Idle
      ]_vars

\* (90, 180) has been answered with a report.
C5_Witness ==
    \E r \in Slots :
        /\ inv[r].op = "get_weather_by_coordinates" /\ inv[r].pc = "done"
        /\ inv[r].args.latitude.v = 9000000 /\ inv[r].args.longitude.v = 18000000
        /\ inv[r].weatherFetches = 1
        /\ IsReport(TextOf(inv[r].result))

(***************************************************************************)
(* C6.  get_forecast accepts days = 1 and days = 14 and rejects days = 0   *)
(* and days = 15; a rejected call has read no cache and issued no request, *)
(* and the step that rejects it leaves the cache unchanged.                *)
(***************************************************************************)
C6_DaysRangeInclusive ==
    [][\A r \in Slots :
        (/\ inv[r].pc = "idle" /\ inv'[r].op = "get_forecast"
         /\ inv'[r].args.city.t = "string"
         /\ inv'[r].args.days # Undefined)
        => /\ inv'[r].args.days.v \in {1, 14}
              => (/\ inv'[r].pc \in {"geocoding", "done"}
                  /\ inv'[r].cacheReads = 1)
           /\ inv'[r].args.days.v \in {0, 15}
              => (/\ inv'[r].pc = "rejected"
                  /\ inv'[r].result = InvalidParams
                  /\ inv'[r].cacheReads = 0 /\ inv'[r].cacheWrites = 0
                  /\ inv'[r].geocodingFetches = 0 /\ inv'[r].weatherFetches = 0
                  /\ weatherCache' = weatherCache)
      ]_vars

\* days = 14 has been answered with a 14-day report.
C6_Witness ==
    \E r \in Slots :
        /\ inv[r].op = "get_forecast" /\ inv[r].pc = "done"
        /\ inv[r].args.days = Num(14)
        /\ StartsWith(TextOf(inv[r].result),
                      <<"# ", "1", "4", "-Day Weather Forecast for ">>)

(***************************************************************************)
(* C7 (as claimed).  get_weather requires a non-empty city: a call with    *)
(* the empty string is rejected by the schema and causes no geocoding      *)
(* request and no cache access.                                            *)
(***************************************************************************)
C7_EmptyCityRejected ==
    \A r \in Slots :
        (inv[r].op = "get_weather" /\ inv[r].args.city = Str(EmptyCity))
        => /\ inv[r].pc = "rejected"
           /\ inv[r].cacheReads = 0
           /\ inv[r].geocodingFetches = 0

(***************************************************************************)
(* C7 (amended).  get_weather requires city to be a string, and any string *)
(* passes, the empty one included: a call with "" runs the handler, which  *)
(* reads the current namespace under the key "" and, on a miss, issues the *)
(* geocoding request; only a city that is not a string is rejected, and    *)
(* that call reads no cache and issues no request.                         *)
(***************************************************************************)
C7_AnyStringCityAccepted ==
    [][\A r \in Slots :
        (inv[r].pc = "idle" /\ inv'[r].op = "get_weather")
        => /\ inv'[r].args.city.t = "string"
              => /\ inv'[r].pc \in {"geocoding", "done"}
                 /\ inv'[r].cacheReads = 1
                 /\ ~FreshEntry("current", toLowerCase(inv'[r].args.city.v))
                    => (inv'[r].pc = "geocoding"
                        /\ inv'[r].geocodingFetches = 1)
           /\ inv'[r].args.city.t # "string"
              => /\ inv'[r].pc = "rejected"
                 /\ inv'[r].cacheReads = 0
                 /\ inv'[r].geocodingFetches = 0
      ]_vars

\* get_weather("") has read the cache and is waiting for its geocoding fetch.
C7_Witness ==
    \E r \in Slots :
        /\ inv[r].op = "get_weather" /\ inv[r].args.city = Str(EmptyCity)
        /\ inv[r].pc = "geocoding"
        /\ inv[r].cacheReads = 1 /\ inv[r].geocodingFetches = 1

(***************************************************************************)
(* C8.  get_weather_by_coordinates never reads or writes the cache and     *)
(* never calls geocoding: an invocation that passed the schema issues      *)
(* exactly one weather request, and every step it takes, whatever the      *)
(* outcome, leaves both cache namespaces as they were.                     *)
(***************************************************************************)
C8_CoordinatesBypassCache ==
    [][\A r \in Slots :
        /\ (inv'[r].op = "get_weather_by_coordinates"
            /\ inv'[r].pc \in {"weather", "done"})
           => /\ inv'[r].weatherFetches = 1
              /\ inv'[r].geocodingFetches = 0
              /\ inv'[r].cacheReads = 0
              /\ inv'[r].cacheWrites = 0
        /\ (inv'[r] # inv[r]
            /\ "get_weather_by_coordinates" \in {inv[r].op, inv'[r].op})
           => weatherCache' = weatherCache
      ]_vars

\* A coordinates lookup is answered with a fresh report although the cache
\* holds an entry, and the cache is still empty of anything it wrote: the
\* only entry is the one a city request stored.
C8_Witness ==
    \E r \in Slots :
        /\ inv[r].op = "get_weather_by_coordinates" /\ inv[r].pc = "done"
        /\ IsReport(TextOf(inv[r].result))
        /\ inv[r].weatherFetches = 1
        /\ DOMAIN weatherCache.current = {toLowerCase(London)}
        /\ DOMAIN weatherCache.forecast = {}
        /\ TextOf(inv[r].result) # weatherCache.current[toLowerCase(London)].text

(***************************************************************************)
(* C9.  A successful get_weather_by_coordinates report is headed by the    *)
(* requested coordinates, each rounded to 4 decimals, never by a place     *)
(* name and country.  (The original claim; formatCurrentWeather of the     *)
(* modular build takes the name branch for every location object and       *)
(* prints "undefined, undefined".)                                         *)
(***************************************************************************)
C9_ReportLabelledByCoordinates ==
    \A r \in Slots :
        (/\ inv[r].op = "get_weather_by_coordinates" /\ inv[r].pc = "done"
         /\ IsReport(TextOf(inv[r].result)))
        => StartsWith(TextOf(inv[r].result),
                      <<"\n# Current Weather for ", "Coordinates (">>
                      \o toFixed4(inv[r].args.latitude.v) \o <<", ">>
                      \o toFixed4(inv[r].args.longitude.v) \o <<")">>)

(***************************************************************************)
(* C10.  The forecast cache key is the lower-cased city followed by the    *)
(* day count.  Every entry of the forecast namespace sits under such a key *)
(* and holds a report rendered for that day count; a get_forecast answered *)
(* with a report gets one rendered for the day count it asked for (7 when  *)
(* days is omitted), so an entry cached for d1 is never returned for       *)
(* d2 # d1; and a request without days is served from the cache exactly    *)
(* when the entry under "<city>_7" is fresh.                               *)
(***************************************************************************)
DayHeader(d) == <<"# ">> \o NumStr(d) \o <<"-Day Weather Forecast for ">>

C10_ForecastKeyHasDayCount ==
    [][/\ \A k \in DOMAIN weatherCache'.forecast :
            \E c \in CityNames, d \in 1..14 :
                /\ k = toLowerCase(c) \o <<"_">> \o NumStr(d)
                /\ StartsWith(weatherCache'.forecast[k].text, DayHeader(d))
       /\ \A r \in Slots :
            /\ (/\ inv'[r].op = "get_forecast" /\ inv'[r].pc = "done"
                /\ IsReport(TextOf(inv'[r].result)))
               => StartsWith(TextOf(inv'[r].result),
                             DayHeader(IF inv'[r].args.days = Undefined THEN 7
                                       ELSE inv'[r].args.days.v))
            /\ (/\ inv[r].pc = "idle" /\ inv'[r].op = "get_forecast"
                /\ inv'[r].pc # "rejected"
                /\ inv'[r].args.days = Undefined)
               => ((inv'[r].pc = "done")
                   <=> FreshEntry("forecast",
                          toLowerCase(inv'[r].args.city.v) \o <<"_", "7">>))
      ]_vars

\* A get_forecast without days is answered from the entry that an explicit
\* days = 7 stored, while the namespace holds no other entry.
C10_Witness ==
    \E r \in Slots :
        /\ inv[r].op = "get_forecast" /\ inv[r].pc = "done"
        /\ inv[r].args.days = Undefined
        /\ inv[r].geocodingFetches = 0
        /\ DOMAIN weatherCache.forecast = {<<"l", "o", "n", "d", "o", "n", "_", "7">>}
        /\ TextOf(inv[r].result)
             = weatherCache.forecast[<<"l", "o", "n", "d", "o", "n", "_", "7">>].text
        /\ StartsWith(TextOf(inv[r].result), DayHeader(7))

(***************************************************************************)
(* C11.  The two cache namespaces are isolated.  A handler that stores a   *)
(* current-conditions report changes the current namespace alone, a        *)
(* handler that stores a forecast changes the forecast namespace alone,    *)
(* and no step changes both; so the forecast entry under a key k, and what *)
(* a read of it finds, is the same before and after a write of the current *)
(* entry under the same k.                                                 *)
(***************************************************************************)
C11_NamespacesIsolated ==
    [][/\ (weatherCache'.current = weatherCache.current
           \/ weatherCache'.forecast = weatherCache.forecast)
       /\ \A r \in Slots :
            (inv[r].pc = "weather" /\ inv'[r].pc = "done"
             /\ inv'[r].cacheWrites = 1)
            => IF inv[r].op = "get_forecast"
               THEN /\ weatherCache'.current = weatherCache.current
                    /\ weatherCache'.forecast[KeyOf(inv[r])].text
                         = TextOf(inv'[r].result)
               ELSE /\ weatherCache'.forecast = weatherCache.forecast
                    /\ weatherCache'.current[KeyOf(inv[r])].text
                         = TextOf(inv'[r].result)
      ]_vars

\* The current report of the city "London_7" has just been stored under the
\* key "london_7", and the forecast namespace still holds the 7-day forecast
\* of London under the same key.
C11_Witness ==
    \E r \in Slots :
        LET k == <<"l", "o", "n", "d", "o", "n", "_", "7">>
        IN  /\ inv[r].op = "currentweather" /\ inv[r].pc = "done"
            /\ inv[r].cacheWrites = 1
            /\ k \in DOMAIN weatherCache.current
            /\ k \in DOMAIN weatherCache.forecast
            /\ weatherCache.current[k].text = TextOf(inv[r].result)
            /\ StartsWith(weatherCache.forecast[k].text, DayHeader(7))
            /\ weatherCache.forecast[k].text # weatherCache.current[k].text

(***************************************************************************)
(* C12.  No cache entry is ever removed.  In every step the keys of each   *)
(* namespace only grow; the step in which a handler starts and reads the   *)
(* cache leaves both namespaces unchanged, also when the entry it finds is *)
(* expired; and an entry changes only in the step in which a handler       *)
(* stores its report under that very key, the new entry holding that       *)
(* report.                                                                 *)
(***************************************************************************)
C12_EntriesNeverRemoved ==
    [][/\ \A t \in {"current", "forecast"} :
            /\ DOMAIN weatherCache[t] \subseteq DOMAIN weatherCache'[t]
            /\ \A k \in DOMAIN weatherCache'[t] :
                 (k \notin DOMAIN weatherCache[t]
                  \/ weatherCache'[t][k] # weatherCache[t][k])
                 => \E r \in Slots :
                      /\ inv[r].pc = "weather" /\ inv'[r].pc = "done"
                      /\ inv'[r].cacheWrites = 1
                      /\ inv[r].op \in CityOps
                      /\ t = (IF inv[r].op = "get_forecast"
                              THEN "forecast" ELSE "current")
                      /\ k = KeyOf(inv[r])
                      /\ weatherCache'[t][k].text = TextOf(inv'[r].result)
                      /\ DOMAIN weatherCache'[t][k] = {"timestamp", "text"}
       /\ \A r \in Slots :
            CityHandlerStarts(r) => weatherCache' = weatherCache
      ]_vars

\* index.js, 30 minutes after an entry was stored (its report says it was
\* rendered at 0 s): a handler has just read the cache under that key, found
\* the entry expired and gone on to geocoding, and the entry is still stored.
C12_Witness ==
    \E r \in Slots :
        /\ build = "monolith"
        /\ inv[r].op \in {"get_weather", "currentweather"}
        /\ inv[r].pc = "geocoding"
        /\ inv[r].now = clock /\ clock = 1800000
        /\ KeyOf(inv[r]) \in DOMAIN weatherCache.current
        /\ weatherCache.current[KeyOf(inv[r])].timestamp = 0
        /\ Includes(weatherCache.current[KeyOf(inv[r])].text,
                    <<"\n\n*Updated: ", "0", "*\n">>)

(***************************************************************************)
(* C13.  Overlapping requests for one key are not de-duplicated, and the   *)
(* last writer wins.  A city handler that starts while another invocation  *)
(* for the same key is still fetching, and finds no fresh entry, issues    *)
(* its own geocoding request; every invocation waiting for its weather     *)
(* response has issued one geocoding and one weather request of its own;   *)
(* and the step in which a handler stores its report leaves, whatever was  *)
(* stored under the key before, exactly the entry holding that handler's   *)
(* report there, every other key of the namespace being as it was.         *)
(***************************************************************************)
SameKey(i, j) ==
    /\ i.op \in CityOps /\ j.op \in CityOps
    /\ i.pc # "rejected" /\ j.pc # "rejected"
    /\ (i.op = "get_forecast") = (j.op = "get_forecast")
    /\ KeyOf(i) = KeyOf(j)

C13_NoSingleFlightLastWriterWins ==
    [][\A r \in Slots :
        /\ (CityHandlerStarts(r)
            /\ \E q \in Slots \ {r} :
                  inv[q].pc \in {"geocoding", "weather"}
                  /\ SameKey(inv[q], inv'[r])
            /\ ~FreshEntry(IF inv'[r].op = "get_forecast"
                           THEN "forecast" ELSE "current", KeyOf(inv'[r])))
           => (inv'[r].pc = "geocoding" /\ inv'[r].geocodingFetches = 1)
        /\ (inv'[r].op \in CityOps /\ inv'[r].pc = "weather")
           => (inv'[r].geocodingFetches = 1 /\ inv'[r].weatherFetches = 1)
        /\ (inv[r].pc = "weather" /\ inv'[r].pc = "done"
            /\ inv'[r].cacheWrites = 1)
           => LET t == IF inv[r].op = "get_forecast"
                       THEN "forecast" ELSE "current"
                  k == KeyOf(inv[r])
              IN  /\ DOMAIN weatherCache'[t] = DOMAIN weatherCache[t] \cup {k}
                  /\ weatherCache'[t][k].text = TextOf(inv'[r].result)
                  /\ inv'[r].geocodingFetches = 1
                  /\ inv'[r].weatherFetches = 1
                  /\ \A j \in DOMAIN weatherCache[t] \ {k} :
                        weatherCache'[t][j] = weatherCache[t][j]
      ]_vars

\* Two requests for one key overlap and both missed: the first has stored
\* its report and is about to answer, the second is still waiting for the
\* weather response it asked for itself.
C13_Witness ==
    \E q \in Slots, r \in Slots :
        /\ q # r
        /\ SameKey(inv[q], inv[r])
        /\ inv[q].pc = "done" /\ inv[q].cacheWrites = 1
        /\ inv[q].geocodingFetches = 1 /\ inv[q].weatherFetches = 1
        /\ inv[r].pc = "weather"
        /\ inv[r].geocodingFetches = 1 /\ inv[r].weatherFetches = 1
        /\ weatherCache[IF inv[q].op = "get_forecast"
                        THEN "forecast" ELSE "current"][KeyOf(inv[q])].text
             = TextOf(inv[q].result)

(***************************************************************************)
(* C14.  Whatever the handler ends with, McpWrapper's callback answers an  *)
(* envelope of its kind (one list, content for a tool and contents for a   *)
(* resource, of one item that has a text): a returned string is the text;  *)
(* any other returned value, null and undefined included, gives the        *)
(* pretty-printed JSON text of the value; an envelope is returned as it    *)
(* is; a thrown error gives the text "Error: " followed by its message.    *)
(* (The original claim: a handler that returns undefined gets an item      *)
(* without text.)                                                          *)
(***************************************************************************)
HasOneTextItem(op, result) ==
    IF op = "registerTool"
    THEN /\ DOMAIN result = {"content"} /\ Len(result.content) = 1
         /\ DOMAIN result.content[1] = {"type", "text"}
         /\ result.content[1].type = "text"
    ELSE /\ DOMAIN result = {"contents"} /\ Len(result.contents) = 1
         /\ DOMAIN result.contents[1] = {"uri", "text"}

\* The text of JSON.stringify(v, null, 2), written out for the values used.
PrettyJson(v) ==
    CASE v = Null -> <<"null">>
      [] v = Num(0) -> <<"0">>
      [] v = Num(42) -> <<"4", "2">>
      [] v = Obj([temperature |-> Num(21)]) ->
            <<"{\n  \"", "temperature", "\": ", "2", "1", "\n}">>

C14_AdapterEnvelopeForEveryOutcome ==
    \A r \in Slots :
        (inv[r].pc = "done" /\ inv[r].op \in {"registerTool", "registerResource"})
        => LET outcome == inv[r].args.handler
               result == inv[r].result
               enveloped == outcome.k = "return" /\ outcome.v.t = "object"
                            /\ (DOMAIN outcome.v.v) \cap {"content", "contents"} # {}
           IN  /\ HasOneTextItem(inv[r].op, result)
               /\ (inv[r].op = "registerResource" /\ ~enveloped)
                  => result.contents[1].uri = inv[r].args.uri.v
               /\ outcome.k = "throw"
                  => TextOf(result) = <<"Error: ">> \o outcome.message
               /\ (outcome.k = "return" /\ outcome.v.t = "string")
                  => TextOf(result) = outcome.v.v
               /\ enveloped => result = outcome.v.v
               /\ (outcome.k = "return" /\ ~enveloped
                   /\ outcome.v.t \notin {"string", "undefined"})
                  => TextOf(result) = PrettyJson(outcome.v)

(***************************************************************************)
(* C15.  The compass label is periodic in the degrees with period 360,     *)
(* negative degrees included: formatWindDirection(d) is one of the 16      *)
(* labels, it is the label of d + 360, and the label of 0 is "N".  (The    *)
(* original claim: the remainder of a negative index is negative, and the  *)
(* array read gives undefined.)                                            *)
(***************************************************************************)
CompassLabels ==
    {"N", "NNE", "NE", "ENE", "E", "ESE", "SE", "SSE",
     "S", "SSW", "SW", "WSW", "W", "WNW", "NW", "NNW"}

C15_CompassPeriodic ==
    \A r \in Slots :
        (inv[r].pc = "done" /\ inv[r].op = "formatWindDirection")
        => LET d == inv[r].args.degrees.v
               label == inv[r].result.v
           IN  /\ Len(label) = 1 /\ label[1] \in CompassLabels
               /\ label = formatWindDirection(d + 360)
               /\ d = 0 => label = <<"N">>

(***************************************************************************)
(* C16.  A report has the gust clause exactly when the gusts strictly      *)
(* exceed the threshold times the wind speed: 1.5 times in the current     *)
(* report, 1.3 times in a forecast day.  For a speed of 10: gusts of 16    *)
(* add the clause to the current report, gusts of 14 and of exactly 15 do  *)
(* not, and gusts of 14 do add it to a forecast day.                       *)
(***************************************************************************)
HasGustClause(text, gusts) ==
    Includes(text, <<" with gusts up to ">> \o NumStr(gusts) \o <<" km/h">>)

C16_GustClauseThresholds ==
    \A r \in Slots :
        /\ (inv[r].pc = "done" /\ inv[r].op = "formatCurrentWeather")
           => LET speed == inv[r].args.wind_speed_10m.v
                  gusts == inv[r].args.wind_gusts_10m.v
                  clause == HasGustClause(inv[r].result.v, gusts)
              IN  /\ clause <=> 2 * gusts > 3 * speed
                  /\ clause <=> Includes(inv[r].result.v, <<" with gusts up to ">>)
                  /\ (speed = 10 /\ gusts = 16) => clause
                  /\ (speed = 10 /\ gusts \in {14, 15}) => ~clause
        /\ (inv[r].pc = "done" /\ inv[r].op = "formatForecast")
           => LET speed == inv[r].args.wind_speed_10m_max.v
                  gusts == inv[r].args.wind_gusts_10m_max.v
                  clause == HasGustClause(inv[r].result.v, gusts)
              IN  /\ clause <=> 10 * gusts > 13 * speed
                  /\ clause <=> Includes(inv[r].result.v, <<" with gusts up to ">>)
                  /\ (speed = 10 /\ gusts = 14) => clause
                  /\ (speed = 10 /\ gusts = 13) => ~clause

\* A forecast day with speed 10 and gusts 14 has the clause that the current
\* report for the same wind has not.
C16_Witness ==
    \E r \in Slots :
        /\ inv[r].pc = "done" /\ inv[r].op = "formatForecast"
        /\ inv[r].args.wind_speed_10m_max = Num(10)
        /\ inv[r].args.wind_gusts_10m_max = Num(14)
        /\ Includes(inv[r].result.v, <<" km/h ", "E", " with gusts up to ", "1", "4", " km/h">>)
        /\ ~Includes((IF build = "monolith"
                      THEN inlineCurrentWeather(
                               [Calm EXCEPT !.wind_speed_10m = 10,
                                            !.wind_gusts_10m = 14], GeoLondon)
                      ELSE formatCurrentWeather(
                               [Calm EXCEPT !.wind_speed_10m = 10,
                                            !.wind_gusts_10m = 14], GeoLondon)).v,
                     <<" with gusts up to ">>)

(***************************************************************************)
(* C17.  An entry stored by a city handler carries the instant of the      *)
(* store as its timestamp, not the instant at which the request started:   *)
(* so a read made right after the store finds the entry valid, and a store *)
(* never replaces an entry by one with an older timestamp.  (The original  *)
(* claim: index.js stores the `now` it read when the handler started.)     *)
(***************************************************************************)
C17_TimestampIsStoreInstant ==
    [][\A r \in Slots :
        (inv[r].pc = "weather" /\ inv'[r].pc = "done"
         /\ inv'[r].cacheWrites = 1)
        => LET t == IF inv[r].op = "get_forecast" THEN "forecast" ELSE "current"
               k == KeyOf(inv[r])
           IN  /\ weatherCache'[t][k].timestamp = clock'
               /\ clock' - weatherCache'[t][k].timestamp < 1800000
               /\ k \in DOMAIN weatherCache[t]
                  => weatherCache'[t][k].timestamp
                       >= weatherCache[t][k].timestamp
      ]_vars

(***************************************************************************)
(* C18.  On a miss a city handler goes through cache read, one geocoding   *)
(* request, one weather request, format, cache write, return, in that      *)
(* order.  It never issues a request twice; while it waits for geocoding   *)
(* it has issued no weather request; it issues the weather request only    *)
(* after geocoding found a place, so none when geocoding failed or found   *)
(* nothing; and it has written the cache only when both requests           *)
(* succeeded and the report was rendered.                                  *)
(***************************************************************************)
C18_FixedStepOrder ==
    [][\A r \in Slots :
        (inv'[r].op \in CityOps /\ inv'[r].pc # "rejected")
        => LET i == inv'[r]
           IN  /\ i.cacheReads = 1
               /\ i.geocodingFetches \in {0, 1} /\ i.weatherFetches \in {0, 1}
               /\ i.cacheWrites \in {0, 1}
               /\ i.pc = "geocoding"
                  => (i.geocodingFetches = 1 /\ i.weatherFetches = 0
                      /\ i.cacheWrites = 0)
               /\ i.pc = "weather"
                  => (i.geocodingFetches = 1 /\ i.weatherFetches = 1
                      /\ i.cacheWrites = 0 /\ inv[r].pc \in {"geocoding", "weather"})
               /\ i.weatherFetches = 1 => i.geocodingFetches = 1
               /\ (i.pc = "done" /\ i.cacheWrites = 1)
                  => (i.geocodingFetches = 1 /\ i.weatherFetches = 1
                      /\ IsReport(TextOf(i.result)))
               /\ (inv[r].pc = "geocoding" /\ i.pc = "done")
                  => (i.weatherFetches = 0 /\ i.cacheWrites = 0
                      /\ ~IsReport(TextOf(i.result))
                      /\ weatherCache' = weatherCache)
               /\ (inv[r].pc = "idle" /\ i.pc = "done")
                  => (i.geocodingFetches = 0 /\ i.weatherFetches = 0
                      /\ i.cacheWrites = 0)
               /\ inv[r].pc = "geocoding" => i.pc \in {"geocoding", "weather", "done"}
               /\ inv[r].pc = "weather" => i.pc \in {"weather", "done"}
               /\ inv[r].pc = "idle" => i.pc \in {"geocoding", "done"}
      ]_vars

\* A handler has gone the whole way: one read, one geocoding request, one
\* weather request, the report stored and about to be returned.
C18_Witness ==
    \E r \in Slots :
        /\ inv[r].op \in CityOps /\ inv[r].pc = "done"
        /\ inv[r].cacheReads = 1 /\ inv[r].geocodingFetches = 1
        /\ inv[r].weatherFetches = 1 /\ inv[r].cacheWrites = 1
        /\ IsReport(TextOf(inv[r].result))
        /\ weatherCache[IF inv[r].op = "get_forecast"
                        THEN "forecast" ELSE "current"][KeyOf(inv[r])].text
             = TextOf(inv[r].result)

(***************************************************************************)
(* C19.  When every upstream request is eventually answered or fails, an   *)
(* invocation that waits for a response eventually returns an envelope (a  *)
(* report or an error text) to its caller, whatever the invocations that   *)
(* overlap it do.                                                          *)
(***************************************************************************)
C19_EveryInvocationReturns ==
    \A r \in Slots :
        (inv[r].pc \in {"geocoding", "weather"})
        ~> (inv[r].pc = "done" /\ IsEnvelopeOf(inv[r].op, inv[r].result))

\* One of two overlapping invocations has gone through both its awaits and
\* is returning while the other still waits for its geocoding response.
C19_Witness ==
    \E q \in Slots, r \in Slots :
        /\ inv[q].pc = "done" /\ inv[q].weatherFetches = 1
        /\ IsEnvelopeOf(inv[q].op, inv[q].result)
        /\ inv[r].pc = "geocoding"

(***************************************************************************)
(* C20.  A request that ends in an error leaves the cache as it was: the   *)
(* step in which a handler ends with an error text changes neither         *)
(* namespace, and that handler has written nothing.  So every cached text  *)
(* is a rendered report, never an error message; and since a failure       *)
(* stores nothing, the next request for the key, finding no fresh entry,   *)
(* goes to the upstream again.                                             *)
(***************************************************************************)
IsErrorText(text) ==
    Len(text) > 0
    /\ text[1] \in {"Error: ", "Error retrieving weather: ",
                    "Error retrieving forecast: "}

C20_ErrorsLeaveCacheUnchanged ==
    [][/\ \A r \in Slots :
            /\ (inv[r].pc \in {"geocoding", "weather"} /\ inv'[r].pc = "done"
                /\ IsErrorText(TextOf(inv'[r].result)))
               => (weatherCache' = weatherCache /\ inv'[r].cacheWrites = 0)
            /\ (CityHandlerStarts(r)
                /\ ~FreshEntry(IF inv'[r].op = "get_forecast"
                               THEN "forecast" ELSE "current", KeyOf(inv'[r])))
               => (inv'[r].pc = "geocoding" /\ inv'[r].geocodingFetches = 1)
       /\ \A t \in {"current", "forecast"} :
            \A k \in DOMAIN weatherCache'[t] :
               /\ IsReport(weatherCache'[t][k].text)
               /\ ~IsErrorText(weatherCache'[t][k].text)
               /\ ~Includes(weatherCache'[t][k].text, <<"fetch failed">>)
      ]_vars

\* A request for a key whose entry had expired has failed at its weather
\* request, 30 minutes after the entry was stored: the old report is still
\* the entry of the key.
C20_Witness ==
    \E r \in Slots :
        /\ inv[r].op \in {"get_weather", "currentweather"}
        /\ inv[r].pc = "done"
        /\ inv[r].weatherFetches = 1 /\ inv[r].cacheWrites = 0
        /\ IsErrorText(TextOf(inv[r].result))
        /\ clock = 1800000
        /\ KeyOf(inv[r]) \in DOMAIN weatherCache.current
        /\ weatherCache.current[KeyOf(inv[r])].timestamp = 0
        /\ IsReport(weatherCache.current[KeyOf(inv[r])].text)

=============================================================================
